---- MODULE Spec2Model ----
(***************************************************************************)
(* file_uploader (src/cli/main.c): the bounded upload queue, the worker    *)
(* pool, the upload executor, the directory coordinator and main().        *)
(*                                                                         *)
(* Two state machines share the queue's steps:                             *)
(*   Spec   the program: main() on a target, single file or directory      *)
(*   QSpec  the queue functions enqueue_upload, dequeue_upload and         *)
(*          shutdown_queue called by several client threads in any order   *)
(*                                                                         *)
(* Every shared-memory operation (a semaphore wait or post, a mutex        *)
(* acquisition, a critical section ending with its unlock) is one step.    *)
(* sem_wait is taken to succeed once the count is positive: the program    *)
(* installs no signal handler and the semaphores are valid while used.     *)
(***************************************************************************)
EXTENDS Integers, Sequences, FiniteSets, TLC

\* ---------------------------------------------------------------- constants
\* #define MAX_CONCURRENT_UPLOADS 4
MAX_CONCURRENT_UPLOADS == 4
\* #define MAX_FILE_SIZE (100 * 1024 * 1024)
MAX_FILE_SIZE == 100 * 1024 * 1024
\* #define UPLOAD_QUEUE_SIZE 100, scaled down so that a full queue is reached;
\* every formula below is stated relative to this name.
UPLOAD_QUEUE_SIZE == 2

\* ------------------------------------------------------------------- bounds
\* largest number of directory entries of a run
MaxFiles == 3
\* largest value of -j explored (g_concurrent_uploads ranges over 1..MaxJobsOpt)
MaxJobsOpt == 1
\* QSpec: number of client threads, and of the enqueue_upload and
\* dequeue_upload calls they make in total
QThreads == 2
\* FSpec: longest file name classified
MaxNameLen == 5
\* FSpec: number of times the same name is classified
MaxClassify == 2
\* one more call than shutdown_queue posts wake-ups
MaxCalls == MAX_CONCURRENT_UPLOADS + 1

Main == 0
Workers == 1..MAX_CONCURRENT_UPLOADS
Threads == {Main} \cup Workers
QClients == 1..QThreads
FREE == 0 - 1
NULL == 0
JobIds == 1..(MaxFiles + MaxCalls)

VARIABLES
    pc,                  \* position of every thread
    queue,               \* the linked list head..tail, as the sequence of its jobs
    items, space,        \* sem_t items, space
    shutdown,            \* queue->shutdown
    qmutex,              \* holder of queue->mutex, FREE when unlocked
    g_files_uploaded, g_files_failed, g_files_total,
    g_stats_mutex,       \* holder of g_stats_mutex, FREE when unlocked
    g_concurrent_uploads,
    arg,                 \* per thread: the job passed to / held from the queue
    ret,                 \* per thread: return value of the call just finished
    sd_i,                \* shutdown_queue's loop counter i
    nFiles,              \* number of entries of the target directory
    widx,                \* the walker's position in the directory
    total_files,         \* collect_files_for_upload's total_files
    files_queued,        \* upload_dir_parallel's files_queued
    spawn_i,             \* upload_dir_parallel's worker-start counter i
    join_j,              \* number of workers joined so far
    udp_failed,          \* TRUE on the pthread_create failure path
    target,              \* what stat() says the target is
    success,             \* main's success
    exitcode,            \* main's return value, -1 while running
    appended,            \* history: jobs in the order they were linked
    removed,             \* history: jobs in the order they were unlinked
    attempts,            \* history: upload attempts made per job
    att,                 \* history: per thread, the current upload attempt
    qcall,               \* history: per thread, the current queue call
    qEnq, qDeq,          \* QSpec: enqueue_upload and dequeue_upload calls started
    sdCalled,            \* history: shutdown_queue has been called
    env,                 \* "faulty": calls may fail and the endpoint may answer
                         \* anything; "clean": every call succeeds and the
                         \* endpoint answers 200 to every request
    tree,                \* the directory tree under the target
    stack,               \* the frames of collect_files_for_upload, innermost last
    job_subdir,          \* per job: job->subdir, a path as its sequence of names
    skipped,             \* history: entries left out after an enumeration error
    enqCalls,            \* history: enqueue_upload calls made per directory entry
    fname,               \* a file name given to should_upload_file
    verdicts             \* the results of classifying fname, in order

vars == << pc, queue, items, space, shutdown, qmutex, g_files_uploaded,
           g_files_failed, g_files_total, g_stats_mutex, g_concurrent_uploads,
           arg, ret, sd_i, nFiles, widx, total_files, files_queued, spawn_i,
           join_j, udp_failed, target, success, exitcode, appended, removed,
           attempts, att, qcall, qEnq, qDeq, sdCalled, env, tree, stack,
           job_subdir, skipped, enqCalls, fname, verdicts >>

qvars == << queue, items, space, shutdown, qmutex >>
statvars == << g_files_uploaded, g_files_failed, g_files_total, g_stats_mutex >>
mainvars == << g_concurrent_uploads, nFiles, widx, total_files, files_queued,
               spawn_i, join_j, udp_failed, target, success, exitcode >>
histvars == << appended, removed, attempts, att, qcall, qEnq, qDeq, sdCalled >>
wvars == << env, tree, stack, job_subdir, skipped, enqCalls, fname, verdicts >>

Goto(t, l) == pc' = [pc EXCEPT ![t] = l]

NoAttempt == [pre |-> FALSE, mime |-> 0, perf |-> 0, incU |-> 0, incF |-> 0,
              res |-> "none", code |-> 0]
NoCall == [obs |-> FALSE, late |-> FALSE, dspace |-> 0, ditems |-> 0, dlen |-> 0]

\* the values the environment may give an input: any of `all`, and only
\* those of `good` in the clean environment
Env(all, good) == IF env = "clean" THEN good ELSE all

\* the walker and the classifier are not in use
WalkerIdle ==
    /\ tree = "none"
    /\ stack = << >>
    /\ job_subdir = [j \in JobIds |-> << >>]
    /\ skipped = {}
    /\ enqCalls = [j \in JobIds |-> 0]
    /\ fname = << >>
    /\ verdicts = << >>

\* ------------------------------------------------------------ the queue
\* mutant: the space semaphore starts one too high
InitSpace_oneMore == UPLOAD_QUEUE_SIZE + 1

\* init_upload_queue: sem_init(&queue->space, 0, UPLOAD_QUEUE_SIZE)
InitSpace == UPLOAD_QUEUE_SIZE

\* init_upload_queue: sem_init(&queue->items, 0, 0)
InitItems == 0

\* mutant: the job is linked at the head
QueueAppend_atHead(q, j) == << j >> \o q

\* enqueue_upload: link the job at the tail
QueueAppend(q, j) == Append(q, j)

\* dequeue_upload: job = queue->head (NULL on an empty list)
QueueHead(q) == IF q = << >> THEN NULL ELSE Head(q)

\* dequeue_upload: if (job) { head = job->next; if (!head) tail = NULL; }
QueueRemoveHead(q) == IF q = << >> THEN q ELSE Tail(q)

\* dequeue_upload: if (queue->shutdown && !queue->head) return NULL
DequeueSeesEnd(sh, q) == sh = 1 /\ q = << >>

\* enqueue_upload: if (queue->shutdown) reject
EnqueueRejects(sh) == sh = 1

\* shutdown_queue: the number of sem_post(&queue->items) it makes
ShutdownPosts == MAX_CONCURRENT_UPLOADS

\* the call itself: arguments passed, nothing shared touched yet
CallEnqueue(t, j) ==
    /\ Goto(t, "enq_wait")
    /\ arg' = [arg EXCEPT ![t] = j]
    /\ qcall' = [qcall EXCEPT ![t] = [NoCall EXCEPT !.late = (shutdown = 1)]]

CallDequeue(t) == Goto(t, "deq_wait")

\* enqueue_upload, sem_wait(&queue->space) and malloc of the job
enq_wait(t) ==
    /\ pc[t] = "enq_wait"
    /\ space > 0
    /\ space' = space - 1
    /\ qcall' = [qcall EXCEPT ![t].dspace = @ - 1]
    /\ \E mallocOk \in Env(BOOLEAN, {TRUE}) :
          Goto(t, IF mallocOk THEN "enq_lock" ELSE "enq_undo")
    /\ UNCHANGED << queue, items, shutdown, qmutex, statvars, mainvars, arg, ret,
                    sd_i, appended, removed, attempts, att, qEnq, qDeq, sdCalled, wvars >>

\* enqueue_upload, pthread_mutex_lock(&queue->mutex)
enq_lock(t) ==
    /\ pc[t] = "enq_lock"
    /\ qmutex = FREE
    /\ qmutex' = t
    /\ Goto(t, "enq_cs")
    /\ UNCHANGED << queue, items, space, shutdown, statvars, mainvars, arg, ret,
                    sd_i, histvars, wvars >>

\* enqueue_upload, the critical section up to its unlock
enq_cs(t) ==
    /\ pc[t] = "enq_cs"
    /\ qmutex' = FREE
    /\ IF EnqueueRejects(shutdown)
       THEN /\ Goto(t, "enq_undo")
            /\ UNCHANGED << queue, appended >>
       ELSE /\ Goto(t, "enq_post")
            /\ queue' = QueueAppend(queue, arg[t])
            /\ appended' = Append(appended, arg[t])
    /\ qcall' = [qcall EXCEPT ![t].obs = (shutdown = 1),
                              ![t].dlen = Len(queue') - Len(queue)]
    /\ UNCHANGED << items, space, shutdown, statvars, mainvars, arg, ret, sd_i,
                    removed, attempts, att, qEnq, qDeq, sdCalled, wvars >>

\* mutant: a failure path forgets sem_post(&queue->space)
EnqueueUndoSpace_noPost(sp) == sp

\* what the two failure paths of enqueue_upload do to the space semaphore
EnqueueUndoSpace(sp) == sp + 1

\* enqueue_upload, both failure paths: free(job) if any, sem_post(&queue->space),
\* return -1
enq_undo(t) ==
    /\ pc[t] = "enq_undo"
    /\ space' = EnqueueUndoSpace(space)
    /\ qcall' = [qcall EXCEPT ![t].dspace = @ + (space' - space)]
    /\ ret' = [ret EXCEPT ![t] = 0 - 1]
    /\ Goto(t, "enq_ret")
    /\ UNCHANGED << queue, items, shutdown, qmutex, statvars, mainvars, arg, sd_i,
                    appended, removed, attempts, att, qEnq, qDeq, sdCalled, wvars >>

\* enqueue_upload, sem_post(&queue->items); return 0
enq_post(t) ==
    /\ pc[t] = "enq_post"
    /\ items' = items + 1
    /\ qcall' = [qcall EXCEPT ![t].ditems = @ + 1]
    /\ ret' = [ret EXCEPT ![t] = 0]
    /\ Goto(t, "enq_ret")
    /\ UNCHANGED << queue, space, shutdown, qmutex, statvars, mainvars, arg, sd_i,
                    appended, removed, attempts, att, qEnq, qDeq, sdCalled, wvars >>

\* dequeue_upload, sem_wait(&queue->items)
deq_wait(t) ==
    /\ pc[t] = "deq_wait"
    /\ items > 0
    /\ items' = items - 1
    /\ Goto(t, "deq_lock")
    /\ UNCHANGED << queue, space, shutdown, qmutex, statvars, mainvars, arg, ret,
                    sd_i, histvars, wvars >>

\* dequeue_upload, pthread_mutex_lock(&queue->mutex)
deq_lock(t) ==
    /\ pc[t] = "deq_lock"
    /\ qmutex = FREE
    /\ qmutex' = t
    /\ Goto(t, "deq_cs")
    /\ UNCHANGED << queue, items, space, shutdown, statvars, mainvars, arg, ret,
                    sd_i, histvars, wvars >>

\* dequeue_upload, the critical section up to its unlock
deq_cs(t) ==
    /\ pc[t] = "deq_cs"
    /\ qmutex' = FREE
    /\ IF DequeueSeesEnd(shutdown, queue)
       THEN /\ ret' = [ret EXCEPT ![t] = NULL]
            /\ Goto(t, "deq_ret")
            /\ UNCHANGED << queue, removed, arg >>
       ELSE /\ arg' = [arg EXCEPT ![t] = QueueHead(queue)]
            /\ queue' = QueueRemoveHead(queue)
            /\ removed' = IF QueueHead(queue) = NULL THEN removed
                          ELSE Append(removed, QueueHead(queue))
            /\ Goto(t, "deq_post")
            /\ UNCHANGED ret
    /\ UNCHANGED << items, space, shutdown, statvars, mainvars, sd_i, appended,
                    attempts, att, qcall, qEnq, qDeq, sdCalled, wvars >>

\* dequeue_upload, sem_post(&queue->space); return job
deq_post(t) ==
    /\ pc[t] = "deq_post"
    /\ space' = space + 1
    /\ ret' = [ret EXCEPT ![t] = arg[t]]
    /\ Goto(t, "deq_ret")
    /\ UNCHANGED << queue, items, shutdown, qmutex, statvars, mainvars, arg, sd_i,
                    histvars, wvars >>

\* shutdown_queue, pthread_mutex_lock(&queue->mutex)
sd_lock(t) ==
    /\ pc[t] = "sd_lock"
    /\ qmutex = FREE
    /\ qmutex' = t
    /\ Goto(t, "sd_cs")
    /\ UNCHANGED << queue, items, space, shutdown, statvars, mainvars, arg, ret,
                    sd_i, histvars, wvars >>

\* shutdown_queue, queue->shutdown = 1 and the unlock
sd_cs(t) ==
    /\ pc[t] = "sd_cs"
    /\ shutdown' = 1
    /\ qmutex' = FREE
    /\ sd_i' = 0
    /\ Goto(t, "sd_post")
    /\ UNCHANGED << queue, items, space, statvars, mainvars, arg, ret, histvars, wvars >>

\* shutdown_queue, one turn of for (i = 0; i < MAX_CONCURRENT_UPLOADS; i++)
\* sem_post(&queue->items), and the return when the loop ends
sd_post(t) ==
    /\ pc[t] = "sd_post"
    /\ IF sd_i < ShutdownPosts
       THEN /\ items' = items + 1
            /\ sd_i' = sd_i + 1
            /\ UNCHANGED pc
       ELSE /\ Goto(t, "sd_ret")
            /\ UNCHANGED << items, sd_i >>
    /\ UNCHANGED << queue, space, shutdown, qmutex, statvars, mainvars, arg, ret,
                    histvars, wvars >>

\* ---------------------------------------------------- the upload executor
\* mutant: the size is not compared with MAX_FILE_SIZE
check_file_size_noLimit(statOk, size) == statOk

\* check_file_size: stat() succeeded and st.st_size <= MAX_FILE_SIZE
check_file_size(statOk, size) == statOk /\ ~(size > MAX_FILE_SIZE)

\* mutant: every 2xx status counts as success
PerformOutcome_any2xx(res, code) ==
    IF res # "CURLE_OK" THEN "transport_error"
    ELSE IF code < 200 \/ code > 299 THEN "server_error"
    ELSE "success"

\* upload_file_optimized, the branch taken after curl_easy_perform:
\* res != CURLE_OK, else response_code != 200, else success
PerformOutcome(res, code) ==
    IF res # "CURLE_OK" THEN "transport_error"
    ELSE IF code # 200 THEN "server_error"
    ELSE "success"

\* inputs the environment supplies to one attempt
FileSizes == {MAX_FILE_SIZE, MAX_FILE_SIZE + 1}
CurlCodes == {"CURLE_OK", "CURLE_COULDNT_CONNECT"}
HttpCodes == {200, 201, 500}

\* a failure path of upload_file_optimized is entered; the history records
\* whether a precondition failed and how far the transport was used
UploadStops(t, pre, built, sent) ==
    /\ Goto(t, "ufo_fail_lock")
    /\ att' = [att EXCEPT ![t] = [NoAttempt EXCEPT !.pre = pre, !.mime = built,
                                                    !.perf = sent]]

\* upload_file_optimized from its entry to the first lock of g_stats_mutex:
\* check_file_size(), access(), curl_mime_init, curl_mime_addpart,
\* curl_easy_perform and the classification of its result. These touch the
\* file system, the network and the caller's own handle, nothing shared
\* between threads, so they belong to the step of the caller that makes the
\* call.
upload_file_optimized(t) ==
    \E statOk \in Env(BOOLEAN, {TRUE}), size \in Env(FileSizes, {MAX_FILE_SIZE}) :
       IF ~check_file_size(statOk, size)
       THEN UploadStops(t, ~statOk \/ size > MAX_FILE_SIZE, 0, 0)
       ELSE \E readable \in Env(BOOLEAN, {TRUE}) :
          IF ~readable
          THEN UploadStops(t, TRUE, 0, 0)
          ELSE \E formOk \in Env(BOOLEAN, {TRUE}), fieldOk \in Env(BOOLEAN, {TRUE}) :
             IF ~formOk \/ ~fieldOk
             THEN UploadStops(t, ~statOk \/ size > MAX_FILE_SIZE, 1, 0)
             ELSE \E res \in Env(CurlCodes, {"CURLE_OK"}), code \in Env(HttpCodes, {200}) :
                /\ Goto(t, IF PerformOutcome(res, code) = "success"
                           THEN "ufo_ok_lock" ELSE "ufo_fail_lock")
                /\ att' = [att EXCEPT ![t] =
                      [NoAttempt EXCEPT
                          !.pre = (~statOk \/ size > MAX_FILE_SIZE),
                          !.mime = 1, !.perf = 1, !.res = res, !.code = code]]

\* pthread_mutex_lock(&g_stats_mutex) of a failure path
ufo_fail_lock(t) ==
    /\ pc[t] = "ufo_fail_lock"
    /\ g_stats_mutex = FREE
    /\ g_stats_mutex' = t
    /\ Goto(t, "ufo_fail_cs")
    /\ UNCHANGED << qvars, g_files_uploaded, g_files_failed, g_files_total,
                    mainvars, arg, ret, sd_i, histvars, wvars >>

\* mutant: a failure path forgets g_files_failed++
FailUpdate_uncounted(up, fl) == << up, fl >>

\* a failure path's update of the counters: g_files_failed++
FailUpdate(up, fl) == << up, fl + 1 >>

\* the success path's update of the counters: g_files_uploaded++
OkUpdate(up, fl) == << up + 1, fl >>

\* mutant: the thread leaves the critical section without unlocking
StatsUnlock_kept(t) == t

\* pthread_mutex_unlock(&g_stats_mutex) by its holder t
StatsUnlock(t) == FREE

\* g_files_failed++; pthread_mutex_unlock; the attempt returns 0
ufo_fail_cs(t) ==
    /\ pc[t] = "ufo_fail_cs"
    /\ g_files_uploaded' = FailUpdate(g_files_uploaded, g_files_failed)[1]
    /\ g_files_failed' = FailUpdate(g_files_uploaded, g_files_failed)[2]
    /\ att' = [att EXCEPT ![t].incU = @ + (g_files_uploaded' - g_files_uploaded),
                          ![t].incF = @ + (g_files_failed' - g_files_failed)]
    /\ g_stats_mutex' = StatsUnlock(t)
    /\ ret' = [ret EXCEPT ![t] = 0]
    /\ Goto(t, "ufo_ret")
    /\ UNCHANGED << qvars, g_files_total, mainvars, arg, sd_i, appended, removed,
                    attempts, qcall, qEnq, qDeq, sdCalled, wvars >>

\* success = 1; pthread_mutex_lock(&g_stats_mutex)
ufo_ok_lock(t) ==
    /\ pc[t] = "ufo_ok_lock"
    /\ g_stats_mutex = FREE
    /\ g_stats_mutex' = t
    /\ Goto(t, "ufo_ok_cs")
    /\ UNCHANGED << qvars, g_files_uploaded, g_files_failed, g_files_total,
                    mainvars, arg, ret, sd_i, histvars, wvars >>

\* g_files_uploaded++; the progress line; pthread_mutex_unlock; the attempt
\* returns 1
ufo_ok_cs(t) ==
    /\ pc[t] = "ufo_ok_cs"
    /\ g_files_uploaded' = OkUpdate(g_files_uploaded, g_files_failed)[1]
    /\ g_files_failed' = OkUpdate(g_files_uploaded, g_files_failed)[2]
    /\ att' = [att EXCEPT ![t].incU = @ + (g_files_uploaded' - g_files_uploaded),
                          ![t].incF = @ + (g_files_failed' - g_files_failed)]
    /\ g_stats_mutex' = StatsUnlock(t)
    /\ ret' = [ret EXCEPT ![t] = 1]
    /\ Goto(t, "ufo_ret")
    /\ UNCHANGED << qvars, g_files_total, mainvars, arg, sd_i, appended, removed,
                    attempts, qcall, qEnq, qDeq, sdCalled, wvars >>

\* ------------------------------------------------------------ the workers
\* upload_worker: create_optimized_curl_handle(); return NULL when it fails,
\* else enter the loop and call dequeue_upload
w_start(t) ==
    /\ pc[t] = "w_start"
    /\ \E curlOk \in Env(BOOLEAN, {TRUE}) :
          IF curlOk THEN CallDequeue(t) ELSE Goto(t, "w_done")
    /\ UNCHANGED << qvars, statvars, mainvars, arg, ret, sd_i, histvars, wvars >>

\* upload_worker: if (!job) break, then curl_easy_cleanup and return;
\* else upload_file_optimized(job->file_path, job->subdir, curl)
w_job(t) ==
    /\ t \in Workers
    /\ pc[t] = "deq_ret"
    /\ IF ret[t] = NULL
       THEN Goto(t, "w_done") /\ UNCHANGED << att, attempts >>
       ELSE /\ upload_file_optimized(t)
            /\ attempts' = [attempts EXCEPT ![ret[t]] = @ + 1]
    /\ UNCHANGED << qvars, statvars, mainvars, arg, ret, sd_i, appended, removed,
                    qcall, qEnq, qDeq, sdCalled, wvars >>

\* upload_worker: free(job) and the next turn of while (1)
w_loop(t) ==
    /\ t \in Workers
    /\ pc[t] = "ufo_ret"
    /\ CallDequeue(t)
    /\ arg' = [arg EXCEPT ![t] = NULL]
    /\ ret' = [ret EXCEPT ![t] = 0]
    /\ att' = [att EXCEPT ![t] = NoAttempt]
    /\ UNCHANGED << qvars, statvars, mainvars, sd_i, appended, removed,
                    attempts, qcall, qEnq, qDeq, sdCalled, wvars >>

\* ------------------------------------------------------- the directory run
\* upload_dir_parallel: init_upload_queue(&queue); return 0 when it fails
udp_init ==
    /\ pc[Main] = "udp_init"
    /\ \E initOk \in Env(BOOLEAN, {TRUE}) :
          IF initOk
          THEN /\ queue' = << >>
               /\ shutdown' = 0
               /\ qmutex' = FREE
               /\ items' = InitItems
               /\ space' = InitSpace
               /\ spawn_i' = 0
               /\ Goto(Main, "udp_spawn")
               /\ UNCHANGED ret
          ELSE /\ ret' = [ret EXCEPT ![Main] = 0]
               /\ Goto(Main, "dir_ret")
               /\ UNCHANGED << qvars, spawn_i >>
    /\ UNCHANGED << statvars, g_concurrent_uploads, nFiles, widx, total_files,
                    files_queued, join_j, udp_failed, target, success, exitcode,
                    arg, sd_i, histvars, wvars >>

\* upload_dir_parallel: one turn of the loop that starts the workers; when
\* pthread_create fails, shutdown_queue is called on the failure path
udp_spawn ==
    /\ pc[Main] = "udp_spawn"
    /\ IF spawn_i < g_concurrent_uploads
       THEN \E created \in Env(BOOLEAN, {TRUE}) :
               IF created
               THEN /\ pc' = [pc EXCEPT ![spawn_i + 1] = "w_start"]
                    /\ spawn_i' = spawn_i + 1
                    /\ UNCHANGED << udp_failed, sdCalled >>
               ELSE /\ udp_failed' = TRUE
                    /\ sdCalled' = TRUE
                    /\ Goto(Main, "sd_lock")
                    /\ UNCHANGED spawn_i
       ELSE /\ Goto(Main, "walk_open")
            /\ UNCHANGED << spawn_i, udp_failed, sdCalled >>
    /\ UNCHANGED << qvars, statvars, g_concurrent_uploads, nFiles, widx,
                    total_files, files_queued, join_j, target, success, exitcode,
                    arg, ret, sd_i, appended, removed, attempts, att, qcall, qEnq, qDeq, wvars >>

\* collect_files_for_upload: opendir; return 0 when it fails
walk_open ==
    /\ pc[Main] = "walk_open"
    /\ total_files' = 0
    /\ \E opened \in BOOLEAN :
          IF opened THEN widx' = 1 /\ Goto(Main, "walk")
          ELSE UNCHANGED widx /\ Goto(Main, "udp_total")
    /\ UNCHANGED << qvars, statvars, g_concurrent_uploads, nFiles, files_queued,
                    spawn_i, join_j, udp_failed, target, success, exitcode, arg,
                    ret, sd_i, histvars, wvars >>

\* collect_files_for_upload: one turn of while (readdir): an entry whose path
\* is too long or that cannot be stat'ed is skipped, an eligible regular file
\* is passed to enqueue_upload; closedir and return when the entries end
walk ==
    /\ pc[Main] = "walk"
    /\ IF widx <= nFiles
       THEN \E entryOk \in BOOLEAN :
               IF entryOk THEN CallEnqueue(Main, widx) /\ UNCHANGED widx
               ELSE widx' = widx + 1 /\ UNCHANGED << pc, arg, qcall >>
       ELSE Goto(Main, "udp_total") /\ UNCHANGED << widx, arg, qcall >>
    /\ UNCHANGED << qvars, statvars, g_concurrent_uploads, nFiles, total_files,
                    files_queued, spawn_i, join_j, udp_failed, target, success,
                    exitcode, ret, sd_i, appended, removed, attempts, att, qEnq, qDeq,
                    sdCalled, wvars >>

\* collect_files_for_upload: if (enqueue_upload(...) == 0) total_files++
walk_ret ==
    /\ pc[Main] = "enq_ret"
    /\ total_files' = IF ret[Main] = 0 THEN total_files + 1 ELSE total_files
    /\ widx' = widx + 1
    /\ Goto(Main, "walk")
    /\ qcall' = [qcall EXCEPT ![Main] = NoCall]
    /\ UNCHANGED << qvars, statvars, g_concurrent_uploads, nFiles, files_queued,
                    spawn_i, join_j, udp_failed, target, success, exitcode, arg,
                    ret, sd_i, appended, removed, attempts, att, qEnq, qDeq, sdCalled, wvars >>

\* upload_dir_parallel: files_queued = collect_files_for_upload(...);
\* g_files_total = files_queued; g_start_time = time(NULL); then
\* shutdown_queue is called
udp_total ==
    /\ pc[Main] = "udp_total"
    /\ files_queued' = total_files
    /\ g_files_total' = total_files
    /\ sdCalled' = TRUE
    /\ Goto(Main, "sd_lock")
    /\ UNCHANGED << qvars, g_files_uploaded, g_files_failed, g_stats_mutex,
                    g_concurrent_uploads, nFiles, widx, total_files, spawn_i,
                    join_j, udp_failed, target, success, exitcode, arg, ret, sd_i,
                    appended, removed, attempts, att, qcall, qEnq, qDeq, wvars >>

\* mutant: the coordinator joins no worker
JoinCount_none == IF udp_failed THEN 0 ELSE 0

\* upload_dir_parallel: the number of workers the join loop waits for,
\* j < i on the failure path and i < g_concurrent_uploads otherwise
JoinCount == IF udp_failed THEN spawn_i ELSE g_concurrent_uploads

\* upload_dir_parallel: shutdown_queue has returned, the join loop starts
udp_sd_ret ==
    /\ pc[Main] = "sd_ret"
    /\ join_j' = 0
    /\ Goto(Main, "udp_join")
    /\ UNCHANGED << qvars, statvars, g_concurrent_uploads, nFiles, widx,
                    total_files, files_queued, spawn_i, udp_failed, target,
                    success, exitcode, arg, ret, sd_i, histvars, wvars >>

\* upload_dir_parallel: pthread_join(workers[j]) returns once that worker
\* has returned; after the last one destroy_upload_queue is called
udp_join ==
    /\ pc[Main] = "udp_join"
    /\ IF join_j < JoinCount
       THEN /\ pc[join_j + 1] = "w_done"
            /\ join_j' = join_j + 1
            /\ UNCHANGED pc
       ELSE /\ Goto(Main, "destroy_lock")
            /\ UNCHANGED join_j
    /\ UNCHANGED << qvars, statvars, g_concurrent_uploads, nFiles, widx,
                    total_files, files_queued, spawn_i, udp_failed, target,
                    success, exitcode, arg, ret, sd_i, histvars, wvars >>

\* destroy_upload_queue: pthread_mutex_lock(&queue->mutex)
destroy_lock ==
    /\ pc[Main] = "destroy_lock"
    /\ qmutex = FREE
    /\ qmutex' = Main
    /\ Goto(Main, "destroy_cs")
    /\ UNCHANGED << queue, items, space, shutdown, statvars, mainvars, arg, ret,
                    sd_i, histvars, wvars >>

\* upload_dir_parallel: return files_queued > 0 ? 1 : 0, and return 0 on the
\* pthread_create failure path
DirResult(failed, queued) == IF failed THEN 0 ELSE IF queued > 0 THEN 1 ELSE 0

\* destroy_upload_queue: shutdown = 1, every job still linked is freed, the
\* unlock, the semaphores and the mutex are destroyed; upload_dir_parallel
\* returns
destroy_cs ==
    /\ pc[Main] = "destroy_cs"
    /\ shutdown' = 1
    /\ queue' = << >>
    /\ qmutex' = FREE
    /\ ret' = [ret EXCEPT ![Main] = DirResult(udp_failed, files_queued)]
    /\ Goto(Main, "dir_ret")
    /\ UNCHANGED << items, space, statvars, mainvars, arg, sd_i, histvars, wvars >>

\* ------------------------------------------------------------------ main
\* main: curl_global_init and parse_arguments; either failing ends the run
\* with status 1; -j sets g_concurrent_uploads
m_start ==
    /\ pc[Main] = "m_start"
    /\ \E globalOk \in BOOLEAN, argsOk \in BOOLEAN, jobs \in 1..MaxJobsOpt :
          IF globalOk /\ argsOk
          THEN /\ g_concurrent_uploads' = jobs
               /\ Goto(Main, "m_stat")
               /\ UNCHANGED exitcode
          ELSE /\ exitcode' = 1
               /\ Goto(Main, "m_exit")
               /\ UNCHANGED g_concurrent_uploads
    /\ UNCHANGED << qvars, statvars, nFiles, widx, total_files, files_queued,
                    spawn_i, join_j, udp_failed, target, success, arg, ret, sd_i,
                    histvars, wvars >>

Targets == {"noaccess", "dir", "file", "other"}

\* main: stat(target_path) and the dispatch on the file type
m_stat ==
    /\ pc[Main] = "m_stat"
    /\ \E kind \in Targets, n \in 0..MaxFiles :
          /\ target' = kind
          /\ nFiles' = IF kind = "dir" THEN n ELSE 0
          /\ exitcode' = IF kind = "noaccess" THEN 1 ELSE exitcode
          /\ success' = IF kind = "other" THEN 0 ELSE success
          /\ g_files_total' = IF kind = "file" THEN 1 ELSE g_files_total
          /\ att' = IF kind = "file" THEN [att EXCEPT ![Main] = NoAttempt] ELSE att
          /\ Goto(Main, CASE kind = "noaccess" -> "m_exit"
                          [] kind = "dir" -> "udp_init"
                          [] kind = "file" -> "uf_handle"
                          [] OTHER -> "m_summary")
    /\ UNCHANGED << qvars, g_files_uploaded, g_files_failed, g_stats_mutex,
                    g_concurrent_uploads, widx, total_files, files_queued,
                    spawn_i, join_j, udp_failed, arg, ret, sd_i, appended,
                    removed, attempts, qcall, qEnq, qDeq, sdCalled, wvars >>

\* upload_file: create_optimized_curl_handle(); on failure the failure is
\* counted, else upload_file_optimized is called
uf_handle ==
    /\ pc[Main] = "uf_handle"
    /\ \E curlOk \in BOOLEAN :
          IF curlOk THEN upload_file_optimized(Main)
          ELSE Goto(Main, "uf_fail_lock") /\ UNCHANGED att
    /\ UNCHANGED << qvars, statvars, mainvars, arg, ret, sd_i, appended, removed,
                    attempts, qcall, qEnq, qDeq, sdCalled, wvars >>

\* upload_file: pthread_mutex_lock(&g_stats_mutex) of the handle failure path
uf_fail_lock ==
    /\ pc[Main] = "uf_fail_lock"
    /\ g_stats_mutex = FREE
    /\ g_stats_mutex' = Main
    /\ Goto(Main, "uf_fail_cs")
    /\ UNCHANGED << qvars, g_files_uploaded, g_files_failed, g_files_total,
                    mainvars, arg, ret, sd_i, histvars, wvars >>

\* mutant: the handle failure is not counted
HandleFailUpdate_uncounted(up, fl) == << up, fl >>

\* upload_file: the handle failure path's update of the counters
HandleFailUpdate(up, fl) == << up, fl + 1 >>

\* upload_file: g_files_failed++; pthread_mutex_unlock; return 0
uf_fail_cs ==
    /\ pc[Main] = "uf_fail_cs"
    /\ g_files_uploaded' = HandleFailUpdate(g_files_uploaded, g_files_failed)[1]
    /\ g_files_failed' = HandleFailUpdate(g_files_uploaded, g_files_failed)[2]
    /\ att' = [att EXCEPT ![Main].incU = @ + (g_files_uploaded' - g_files_uploaded),
                          ![Main].incF = @ + (g_files_failed' - g_files_failed)]
    /\ g_stats_mutex' = FREE
    /\ ret' = [ret EXCEPT ![Main] = 0]
    /\ Goto(Main, "file_ret")
    /\ UNCHANGED << qvars, g_files_total, mainvars, arg, sd_i, appended, removed,
                    attempts, qcall, qEnq, qDeq, sdCalled, wvars >>

\* upload_file: result = upload_file_optimized(...); curl_easy_cleanup;
\* return result
uf_return ==
    /\ pc[Main] = "ufo_ret"
    /\ Goto(Main, "file_ret")
    /\ UNCHANGED << qvars, statvars, mainvars, arg, ret, sd_i, histvars, wvars >>

\* main: success = upload_file(...) and success = upload_dir(...)
m_result ==
    /\ pc[Main] \in {"file_ret", "dir_ret"}
    /\ success' = ret[Main]
    /\ Goto(Main, "m_summary")
    /\ UNCHANGED << qvars, statvars, g_concurrent_uploads, nFiles, widx,
                    total_files, files_queued, spawn_i, join_j, udp_failed,
                    target, exitcode, arg, ret, sd_i, histvars, wvars >>

\* mutant: the failure counter is not consulted
ExitStatus_ignoreFailed(succ, failed) == IF succ # 0 THEN 0 ELSE 1

\* main: return success && g_files_failed == 0 ? 0 : 1
ExitStatus(succ, failed) == IF succ # 0 /\ failed = 0 THEN 0 ELSE 1

\* main: the summary and the return
m_summary ==
    /\ pc[Main] = "m_summary"
    /\ exitcode' = ExitStatus(success, g_files_failed)
    /\ Goto(Main, "m_exit")
    /\ UNCHANGED << qvars, statvars, g_concurrent_uploads, nFiles, widx,
                    total_files, files_queued, spawn_i, join_j, udp_failed,
                    target, success, arg, ret, sd_i, histvars, wvars >>

\* ------------------------------------------------------- the program
Init ==
    /\ pc = [t \in Threads |-> IF t = Main THEN "m_start" ELSE "not_started"]
    /\ queue = << >>
    /\ items = 0
    /\ space = 0
    /\ shutdown = 0
    /\ qmutex = FREE
    /\ g_files_uploaded = 0
    /\ g_files_failed = 0
    /\ g_files_total = 0
    /\ g_stats_mutex = FREE
    /\ g_concurrent_uploads = MAX_CONCURRENT_UPLOADS
    /\ arg = [t \in Threads |-> NULL]
    /\ ret = [t \in Threads |-> 0]
    /\ sd_i = 0
    /\ nFiles = 0
    /\ widx = 0
    /\ total_files = 0
    /\ files_queued = 0
    /\ spawn_i = 0
    /\ join_j = 0
    /\ udp_failed = FALSE
    /\ target = "none"
    /\ success = 1
    /\ exitcode = 0 - 1
    /\ appended = << >>
    /\ removed = << >>
    /\ attempts = [j \in JobIds |-> 0]
    /\ att = [t \in Threads |-> NoAttempt]
    /\ qcall = [t \in Threads |-> NoCall]
    /\ qEnq = 0
    /\ qDeq = 0
    /\ sdCalled = FALSE
    /\ env = "faulty"
    /\ WalkerIdle

QueueStep(t) ==
    \/ enq_wait(t) \/ enq_lock(t) \/ enq_cs(t) \/ enq_undo(t) \/ enq_post(t)
    \/ deq_wait(t) \/ deq_lock(t) \/ deq_cs(t) \/ deq_post(t)
    \/ sd_lock(t) \/ sd_cs(t) \/ sd_post(t)

UploadStep(t) ==
    \/ ufo_fail_lock(t) \/ ufo_fail_cs(t) \/ ufo_ok_lock(t) \/ ufo_ok_cs(t)

WorkerStep(t) == w_start(t) \/ w_job(t) \/ w_loop(t)

MainStep ==
    \/ m_start \/ m_stat \/ uf_handle \/ uf_fail_lock \/ uf_fail_cs \/ uf_return
    \/ m_result \/ m_summary
    \/ udp_init \/ udp_spawn \/ walk_open \/ walk \/ walk_ret \/ udp_total
    \/ udp_sd_ret \/ udp_join \/ destroy_lock \/ destroy_cs

Next ==
    \/ MainStep
    \/ \E t \in Workers : WorkerStep(t)
    \/ \E t \in Threads : QueueStep(t) \/ UploadStep(t)

Spec == Init /\ [][Next]_vars

\* ------------------------------------------- the queue under any callers
\* the state init_upload_queue leaves, with QThreads client threads idle
QInit ==
    /\ pc = [t \in Threads |-> IF t \in QClients THEN "q_idle" ELSE "not_started"]
    /\ queue = << >>
    /\ items = InitItems
    /\ space = InitSpace
    /\ shutdown = 0
    /\ qmutex = FREE
    /\ g_files_uploaded = 0
    /\ g_files_failed = 0
    /\ g_files_total = 0
    /\ g_stats_mutex = FREE
    /\ g_concurrent_uploads = MAX_CONCURRENT_UPLOADS
    /\ arg = [t \in Threads |-> NULL]
    /\ ret = [t \in Threads |-> 0]
    /\ sd_i = 0
    /\ nFiles = 0
    /\ widx = 0
    /\ total_files = 0
    /\ files_queued = 0
    /\ spawn_i = 0
    /\ join_j = 0
    /\ udp_failed = FALSE
    /\ target = "none"
    /\ success = 1
    /\ exitcode = 0 - 1
    /\ appended = << >>
    /\ removed = << >>
    /\ attempts = [j \in JobIds |-> 0]
    /\ att = [t \in Threads |-> NoAttempt]
    /\ qcall = [t \in Threads |-> NoCall]
    /\ qEnq = 0
    /\ qDeq = 0
    /\ sdCalled = FALSE
    /\ env = "faulty"
    /\ WalkerIdle

\* a client is between calls: it has not called yet or its last call returned
QBetweenCalls(t) == pc[t] \in {"q_idle", "enq_ret", "deq_ret", "sd_ret"}

\* a client calls enqueue_upload with a fresh job
q_enqueue(t) ==
    /\ QBetweenCalls(t)
    /\ qEnq + qDeq < MaxCalls
    /\ qEnq' = qEnq + 1
    /\ CallEnqueue(t, qEnq + 1)
    /\ ret' = [ret EXCEPT ![t] = 0]
    /\ UNCHANGED << qvars, statvars, mainvars, sd_i, appended, removed,
                    attempts, att, qDeq, sdCalled, wvars >>

\* a client calls dequeue_upload
q_dequeue(t) ==
    /\ QBetweenCalls(t)
    /\ qEnq + qDeq < MaxCalls
    /\ qDeq' = qDeq + 1
    /\ CallDequeue(t)
    /\ arg' = [arg EXCEPT ![t] = NULL]
    /\ ret' = [ret EXCEPT ![t] = 0]
    /\ qcall' = [qcall EXCEPT ![t] = NoCall]
    /\ UNCHANGED << qvars, statvars, mainvars, sd_i, appended, removed,
                    attempts, att, qEnq, sdCalled, wvars >>

\* a client calls shutdown_queue, which is called once per queue
q_shutdown(t) ==
    /\ QBetweenCalls(t)
    /\ ~sdCalled
    /\ sdCalled' = TRUE
    /\ Goto(t, "sd_lock")
    /\ arg' = [arg EXCEPT ![t] = NULL]
    /\ ret' = [ret EXCEPT ![t] = 0]
    /\ qcall' = [qcall EXCEPT ![t] = NoCall]
    /\ UNCHANGED << qvars, statvars, mainvars, sd_i, appended, removed,
                    attempts, att, qEnq, qDeq, wvars >>

QNext ==
    \E t \in QClients :
        \/ q_enqueue(t) \/ q_dequeue(t) \/ q_shutdown(t)
        \/ QueueStep(t)

QSpec == QInit /\ [][QNext]_vars

\* ------------------------------------------------- the file classifier
\* the characters file names are made of
NameChars == {".", "t", "m", "p", "s", "w", "~", "a"}
\* all names of at most MaxNameLen characters
Names == UNION {[1..n -> NameChars] : n \in 0..MaxNameLen}

\* the character of the C string s at index i (from 1); the string ends
\* with a NUL
StrAt(s, i) == IF i <= Len(s) THEN s[i] ELSE "NUL"

\* the needle n occurs in h at index i
MatchAt(h, n, i) == \A k \in 1..Len(n) : StrAt(h, i + k - 1) = n[k]

\* strstr scanning h from index i: the index of the first occurrence of n,
\* NULL when there is none
RECURSIVE strstr_from(_, _, _)
strstr_from(h, n, i) ==
    IF i > Len(h) THEN NULL
    ELSE IF MatchAt(h, n, i) THEN i
    ELSE strstr_from(h, n, i + 1)

\* mutant: the needle is looked for at the end of the name only
strstr_suffix(h, n) ==
    IF Len(n) <= Len(h) /\ MatchAt(h, n, Len(h) - Len(n) + 1)
    THEN Len(h) - Len(n) + 1 ELSE NULL

\* strstr(h, n)
strstr(h, n) == strstr_from(h, n, 1)

\* mutant: every name is accepted
should_upload_file_all(filename) == 1 + 0 * Len(filename)

\* should_upload_file: 0 for a name whose first character is '.', 0 for a
\* name in which strstr finds ".tmp", ".swp" or "~", 1 otherwise
should_upload_file(filename) ==
    IF StrAt(filename, 1) = "." THEN 0
    ELSE IF \/ strstr(filename, << ".", "t", "m", "p" >>) # NULL
            \/ strstr(filename, << ".", "s", "w", "p" >>) # NULL
            \/ strstr(filename, << "~" >>) # NULL
         THEN 0
         ELSE 1

\* a name is chosen; nothing else of the program runs
FInit ==
    /\ pc = [t \in Threads |-> "not_started"]
    /\ queue = << >>
    /\ items = 0
    /\ space = 0
    /\ shutdown = 0
    /\ qmutex = FREE
    /\ g_files_uploaded = 0
    /\ g_files_failed = 0
    /\ g_files_total = 0
    /\ g_stats_mutex = FREE
    /\ g_concurrent_uploads = MAX_CONCURRENT_UPLOADS
    /\ arg = [t \in Threads |-> NULL]
    /\ ret = [t \in Threads |-> 0]
    /\ sd_i = 0
    /\ nFiles = 0
    /\ widx = 0
    /\ total_files = 0
    /\ files_queued = 0
    /\ spawn_i = 0
    /\ join_j = 0
    /\ udp_failed = FALSE
    /\ target = "none"
    /\ success = 1
    /\ exitcode = 0 - 1
    /\ appended = << >>
    /\ removed = << >>
    /\ attempts = [j \in JobIds |-> 0]
    /\ att = [t \in Threads |-> NoAttempt]
    /\ qcall = [t \in Threads |-> NoCall]
    /\ qEnq = 0
    /\ qDeq = 0
    /\ sdCalled = FALSE
    /\ env = "faulty"
    /\ tree = "none"
    /\ stack = << >>
    /\ job_subdir = [j \in JobIds |-> << >>]
    /\ skipped = {}
    /\ enqCalls = [j \in JobIds |-> 0]
    /\ fname \in Names
    /\ verdicts = << >>

\* should_upload_file(fname) is called and its result kept
f_classify ==
    /\ Len(verdicts) < MaxClassify
    /\ verdicts' = Append(verdicts, should_upload_file(fname))
    /\ UNCHANGED << pc, qvars, statvars, mainvars, arg, ret, sd_i, histvars, env,
                    tree, stack, job_subdir, skipped, enqCalls, fname >>

FNext == f_classify

FSpec == FInit /\ [][FNext]_vars

\* ---------------------------------------------- the walker on a tree
\* A directory is the sequence of its entries in readdir order, without
\* "." and "..", which the walker passes over. An entry has a number, a
\* name, the file type stat() reports, and for a directory the directory it
\* leads to. A path is the sequence of its names.
Entry(i, n, k, d) == [id |-> i, name |-> n, kind |-> k, sub |-> d]
RootDir == 1
RootEntry == 0

\* tree "A": a.txt  .hidden  b.tmp  sub/c.txt
\* tree "B": d1/d2/f  p (a fifo)  e
TreeNames == {"A", "B"}
Entries(tr, d) ==
    CASE tr = "A" /\ d = 1 ->
            << Entry(1, << "a", ".", "t", "x", "t" >>, "reg", 0),
               Entry(2, << ".", "h", "i", "d", "d", "e", "n" >>, "reg", 0),
               Entry(3, << "b", ".", "t", "m", "p" >>, "reg", 0),
               Entry(4, << "s", "u", "b" >>, "dir", 2) >>
      [] tr = "A" /\ d = 2 ->
            << Entry(5, << "c", ".", "t", "x", "t" >>, "reg", 0) >>
      [] tr = "B" /\ d = 1 ->
            << Entry(1, << "d", "1" >>, "dir", 2),
               Entry(2, << "p" >>, "other", 0),
               Entry(3, << "e" >>, "reg", 0) >>
      [] tr = "B" /\ d = 2 ->
            << Entry(4, << "d", "2" >>, "dir", 3) >>
      [] tr = "B" /\ d = 3 ->
            << Entry(5, << "f" >>, "reg", 0) >>
      [] OTHER -> << >>

\* what can go wrong with one entry before its type is looked at: the
\* path does not fit full_path, or stat() fails
EntryErrors == {"none", "toolong", "stat"}

\* a frame of collect_files_for_upload: the directory read, subdir_prefix,
\* the position of readdir and total_files
Frame(d, pre) == [dir |-> d, prefix |-> pre, pos |-> 1, total |-> 0]

\* mutant: the nested prefix forgets the prefix it extends
NewSubdir_flat(prefix, name) == << name >>

\* collect_files_for_upload: new_subdir is "prefix/name" for a non-empty
\* subdir_prefix and "name" otherwise
NewSubdir(prefix, name) ==
    IF Len(prefix) > 0 THEN Append(prefix, name) ELSE << name >>

\* collect_files_for_upload: the loop goes on to the next entry
NextEntry(f) == [f EXCEPT !.pos = @ + 1]

\* mutant: an enumeration error ends the reading of the directory
SkipEntry_abort(f) == [f EXCEPT !.pos = @ + MaxFiles + MAX_CONCURRENT_UPLOADS]

\* collect_files_for_upload: the message and continue after an entry that
\* cannot be used
SkipEntry(f) == NextEntry(f)

\* the stack with its innermost frame replaced by f
WithTop(f) == [stack EXCEPT ![Len(stack)] = f]

\* upload_dir_parallel calls collect_files_for_upload(dir_path,
\* subdir_prefix, &queue): opendir, and return 0 when it fails
cf_root ==
    /\ pc[Main] = "walk_open"
    /\ total_files' = 0
    /\ \E opened \in Env(BOOLEAN, {TRUE}) :
          IF opened
          THEN /\ stack' = << Frame(RootDir, << >>) >>
               /\ Goto(Main, "cf_loop")
               /\ UNCHANGED skipped
          ELSE /\ skipped' = skipped \cup {RootEntry}
               /\ Goto(Main, "udp_total")
               /\ UNCHANGED stack
    /\ UNCHANGED << qvars, statvars, g_concurrent_uploads, nFiles, widx,
                    files_queued, spawn_i, join_j, udp_failed, target, success,
                    exitcode, arg, ret, sd_i, histvars, env, tree, job_subdir,
                    enqCalls, fname, verdicts >>

\* collect_files_for_upload, one turn of while (readdir): an entry with an
\* error is skipped, a directory is entered with new_subdir (a directory
\* that cannot be opened adds 0), an eligible regular file is passed to
\* enqueue_upload with subdir_prefix, anything else is passed over; when
\* the entries end, closedir and return total_files to the caller
cf_entry ==
    /\ pc[Main] = "cf_loop"
    /\ LET f == stack[Len(stack)]
           es == Entries(tree, f.dir)
       IN IF f.pos > Len(es)
          THEN /\ UNCHANGED << skipped, arg, qcall, job_subdir, enqCalls >>
               /\ IF Len(stack) = 1
                  THEN /\ total_files' = f.total
                       /\ stack' = << >>
                       /\ Goto(Main, "udp_total")
                  ELSE /\ stack' = [SubSeq(stack, 1, Len(stack) - 1) EXCEPT
                                      ![Len(stack) - 1] =
                                          NextEntry([@ EXCEPT !.total = @ + f.total])]
                       /\ UNCHANGED << pc, total_files >>
          ELSE LET e == es[f.pos] IN
               /\ UNCHANGED total_files
               /\ \E err \in Env(EntryErrors, {"none"}) :
                  IF err # "none"
                  THEN /\ skipped' = skipped \cup {e.id}
                       /\ stack' = WithTop(SkipEntry(f))
                       /\ UNCHANGED << pc, arg, qcall, job_subdir, enqCalls >>
                  ELSE IF e.kind = "dir"
                  THEN /\ \E opened \in Env(BOOLEAN, {TRUE}) :
                            IF opened
                            THEN /\ stack' = Append(stack,
                                        Frame(e.sub, NewSubdir(f.prefix, e.name)))
                                 /\ UNCHANGED skipped
                            ELSE /\ stack' = WithTop(SkipEntry(f))
                                 /\ skipped' = skipped \cup {e.id}
                       /\ UNCHANGED << pc, arg, qcall, job_subdir, enqCalls >>
                  ELSE IF e.kind = "reg" /\ should_upload_file(e.name) # 0
                  THEN /\ CallEnqueue(Main, e.id)
                       /\ job_subdir' = [job_subdir EXCEPT ![e.id] = f.prefix]
                       /\ enqCalls' = [enqCalls EXCEPT ![e.id] = @ + 1]
                       /\ UNCHANGED << stack, skipped >>
                  ELSE /\ stack' = WithTop(NextEntry(f))
                       /\ UNCHANGED << pc, arg, qcall, job_subdir, enqCalls,
                                       skipped >>
    /\ UNCHANGED << qvars, statvars, g_concurrent_uploads, nFiles, widx,
                    files_queued, spawn_i, join_j, udp_failed, target, success,
                    exitcode, ret, sd_i, appended, removed, attempts, att, qEnq,
                    qDeq, sdCalled, env, tree, fname, verdicts >>

\* collect_files_for_upload: if (enqueue_upload(...) == 0) total_files++,
\* and the loop goes on
cf_enq_ret ==
    /\ pc[Main] = "enq_ret"
    /\ LET f == stack[Len(stack)]
       IN stack' = WithTop(NextEntry(
              [f EXCEPT !.total = IF ret[Main] = 0 THEN @ + 1 ELSE @]))
    /\ Goto(Main, "cf_loop")
    /\ qcall' = [qcall EXCEPT ![Main] = NoCall]
    /\ UNCHANGED << qvars, statvars, mainvars, arg, ret, sd_i, appended, removed,
                    attempts, att, qEnq, qDeq, sdCalled, env, tree, job_subdir,
                    skipped, enqCalls, fname, verdicts >>

\* main has dispatched a directory target to upload_dir_parallel: a tree,
\* an environment and a value of -j are chosen; every worker count is run
\* in the clean environment
WInit ==
    /\ pc = [t \in Threads |-> IF t = Main THEN "udp_init" ELSE "not_started"]
    /\ queue = << >>
    /\ items = 0
    /\ space = 0
    /\ shutdown = 0
    /\ qmutex = FREE
    /\ g_files_uploaded = 0
    /\ g_files_failed = 0
    /\ g_files_total = 0
    /\ g_stats_mutex = FREE
    /\ env \in {"clean", "faulty"}
    /\ g_concurrent_uploads \in
          1..(IF env = "clean" THEN MAX_CONCURRENT_UPLOADS ELSE MaxJobsOpt)
    /\ arg = [t \in Threads |-> NULL]
    /\ ret = [t \in Threads |-> 0]
    /\ sd_i = 0
    /\ nFiles = 0
    /\ widx = 0
    /\ total_files = 0
    /\ files_queued = 0
    /\ spawn_i = 0
    /\ join_j = 0
    /\ udp_failed = FALSE
    /\ target = "dir"
    /\ success = 1
    /\ exitcode = 0 - 1
    /\ appended = << >>
    /\ removed = << >>
    /\ attempts = [j \in JobIds |-> 0]
    /\ att = [t \in Threads |-> NoAttempt]
    /\ qcall = [t \in Threads |-> NoCall]
    /\ qEnq = 0
    /\ qDeq = 0
    /\ sdCalled = FALSE
    /\ tree \in TreeNames
    /\ stack = << >>
    /\ job_subdir = [j \in JobIds |-> << >>]
    /\ skipped = {}
    /\ enqCalls = [j \in JobIds |-> 0]
    /\ fname = << >>
    /\ verdicts = << >>

WMainStep ==
    \/ udp_init \/ udp_spawn \/ cf_root \/ cf_entry \/ cf_enq_ret \/ udp_total
    \/ udp_sd_ret \/ udp_join \/ destroy_lock \/ destroy_cs

WNext ==
    \/ WMainStep
    \/ \E t \in Workers : WorkerStep(t)
    \/ \E t \in Threads : QueueStep(t) \/ UploadStep(t)

WSpec == WInit /\ [][WNext]_vars

\* ------------------------------------------------------------- the claims
Range(q) == {q[k] : k \in 1..Len(q)}
Occurrences(q, j) == Cardinality({k \in 1..Len(q) : q[k] = j})

\* C1: when upload_dir_parallel returns, every job that was enqueued has been
\* dequeued exactly once and attempted exactly once, and the two counters add
\* up to the number of jobs.
C1_NoJobLost ==
    pc[Main] = "dir_ret" =>
        /\ \A j \in Range(appended) :
              Occurrences(removed, j) = 1 /\ attempts[j] = 1
        /\ g_files_uploaded + g_files_failed = Len(appended)

\* C2: the queue never holds more than UPLOAD_QUEUE_SIZE jobs; while it holds
\* that many the space semaphore is 0, so a caller of enqueue_upload waits in
\* sem_wait, and a caller that has passed sem_wait finds room.
C2_QueueBounded ==
    /\ Len(queue) <= UPLOAD_QUEUE_SIZE
    /\ Len(queue) = UPLOAD_QUEUE_SIZE => space = 0
    /\ \A t \in Threads :
          pc[t] \in {"enq_lock", "enq_cs"} => Len(queue) < UPLOAD_QUEUE_SIZE

\* C2 witness: the queue is full and the walker is blocked in enqueue_upload
C2_FullAndBlocked ==
    /\ pc[Main] = "enq_wait"
    /\ Len(queue) = UPLOAD_QUEUE_SIZE
    /\ space = 0

\* a caller of dequeue_upload that can never return: shutdown_queue has set
\* the flag and made all its posts, the queue is empty, no wake-up is left
\* and no thread is about to post one
DequeueStuck(t) ==
    /\ pc[t] = "deq_wait"
    /\ shutdown = 1
    /\ queue = << >>
    /\ items = 0
    /\ \A u \in Threads : pc[u] \notin {"enq_post", "sd_lock", "sd_cs", "sd_post"}

\* once a caller is stuck it stays stuck (QSpec: shutdown_queue is called once
\* and every later enqueue_upload is rejected)
StuckForever == [][\A t \in Threads : DequeueStuck(t) => DequeueStuck(t)']_vars

\* C3: after shutdown_queue, no call of dequeue_upload on the empty queue
\* blocks forever, however many calls are made.
C3_NoDequeueStuck == \A t \in Threads : ~DequeueStuck(t)

\* C4: the queue is empty when destroy_upload_queue runs, every job that was
\* enqueued having been dequeued and attempted by then.
C4_DrainedAtDestroy ==
    pc[Main] \in {"destroy_lock", "destroy_cs"} =>
        /\ queue = << >>
        /\ \A j \in Range(appended) : attempts[j] >= 1

\* C5: a call of enqueue_upload that saw the shutdown flag set returns -1,
\* its job is not linked, and its net effect on the items and the space
\* semaphore is zero.
C5_RejectLeavesQueue ==
    \A t \in Threads :
        (pc[t] = "enq_ret" /\ qcall[t].obs) =>
            /\ ret[t] = 0 - 1
            /\ arg[t] \notin Range(appended)
            /\ qcall[t].dlen = 0
            /\ qcall[t].ditems = 0
            /\ qcall[t].dspace = 0

\* C5 witness: a call has returned after seeing the flag set
C5_Rejected == \E t \in Threads : pc[t] = "enq_ret" /\ qcall[t].obs

\* C6: a call of enqueue_upload made after shutdown was requested fails
\* without blocking, also when the queue is full: it is never held in
\* sem_wait(&queue->space) by a full queue.
C6_LateEnqueueNeverHeld ==
    \A t \in Threads :
        ~ /\ pc[t] = "enq_wait"
          /\ qcall[t].late
          /\ Len(queue) = UPLOAD_QUEUE_SIZE
          /\ space = 0

\* C7: the jobs dequeue_upload has unlinked are, in order, the first jobs
\* enqueue_upload linked.
C7_Fifo ==
    /\ Len(removed) <= Len(appended)
    /\ removed = SubSeq(appended, 1, Len(removed))

\* C7 witness: two jobs were in the queue together and both have been
\* dequeued
C7_TwoDequeued == Len(removed) >= 2 /\ Len(queue) >= 1

\* an upload attempt of thread t has just returned
AttemptReturned(t) ==
    pc[t] = "ufo_ret" \/ (t = Main /\ pc[t] = "file_ret")

\* C8, on return: exactly one counter was incremented, by 1, and it was
\* g_files_uploaded exactly when the attempt returns 1
C8_OnReturn ==
    \A t \in Threads :
        AttemptReturned(t) =>
            /\ att[t].incU \in {0, 1}
            /\ att[t].incF \in {0, 1}
            /\ att[t].incU + att[t].incF = 1
            /\ att[t].incU = 1 <=> ret[t] = 1

\* C8, on every change of a counter: the thread making the step holds
\* g_stats_mutex, and the change is one increment by 1
C8_UnderLock ==
    (g_files_uploaded' # g_files_uploaded \/ g_files_failed' # g_files_failed) =>
        /\ g_stats_mutex \in Threads
        /\ pc'[g_stats_mutex] # pc[g_stats_mutex]
        /\ (g_files_uploaded' - g_files_uploaded)
              + (g_files_failed' - g_files_failed) = 1
        /\ g_files_uploaded' >= g_files_uploaded
        /\ g_files_failed' >= g_files_failed

\* C8: every upload attempt changes the shared counters exactly once, under
\* g_stats_mutex, and counts a success exactly when it returns success.
C8_CountedOnce == [] C8_OnReturn /\ [][C8_UnderLock]_vars

\* C8 witness: a worker's attempt has returned success
C8_AttemptDone ==
    \E t \in Workers : pc[t] = "ufo_ret" /\ ret[t] = 1 /\ g_files_failed >= 1

C10_NoTransportOnPrecondition ==
    \A t \in Threads :
        att[t].pre =>
            /\ att[t].mime = 0
            /\ att[t].perf = 0
            /\ AttemptReturned(t) =>
                  ret[t] = 0 /\ att[t].incF = 1 /\ att[t].incU = 0

\* C10 witness: an attempt that failed a precondition has returned
C10_PreconditionFailed ==
    \E t \in Threads : AttemptReturned(t) /\ att[t].pre

\* C11: an attempt that reached curl_easy_perform succeeds exactly when the
\* transport returned CURLE_OK and the status is 200; it is counted as a
\* success in that case and as a failure in every other.
C11_SuccessIffOk200 ==
    \A t \in Threads :
        (AttemptReturned(t) /\ att[t].perf = 1) =>
            /\ ret[t] = 1 <=> (att[t].res = "CURLE_OK" /\ att[t].code = 200)
            /\ att[t].incU = 1 <=> (att[t].res = "CURLE_OK" /\ att[t].code = 200)
            /\ att[t].incF = 1 <=> (att[t].res # "CURLE_OK" \/ att[t].code # 200)

\* C11 witness: a transport error with status 200 has been counted as a
\* failure
C11_ErrorWith200 ==
    \E t \in Threads :
        /\ AttemptReturned(t)
        /\ att[t].perf = 1
        /\ att[t].res # "CURLE_OK"
        /\ att[t].code = 200
        /\ ret[t] = 0

\* C13: for a single regular file no queue is created and no worker is
\* started, g_files_total is 1, the counters record exactly one attempt, and
\* an HTTP 500 answer ends the run with 0 uploaded, 1 failed and status 1.
C13_SingleFile ==
    target = "file" =>
        /\ \A w \in Workers : pc[w] = "not_started"
        /\ queue = << >> /\ items = 0 /\ space = 0 /\ qmutex = FREE
        /\ appended = << >> /\ ~sdCalled
        /\ g_files_total = 1
        /\ g_files_uploaded + g_files_failed <= 1
        /\ pc[Main] = "m_exit" =>
              /\ g_files_uploaded + g_files_failed = 1
              /\ (att[Main].perf = 1 /\ att[Main].res = "CURLE_OK"
                     /\ att[Main].code = 500) =>
                    /\ g_files_uploaded = 0
                    /\ g_files_failed = 1
                    /\ exitcode = 1

\* C13 witness: a single-file run whose request was answered 500 has ended
C13_File500 ==
    /\ target = "file"
    /\ pc[Main] = "m_exit"
    /\ att[Main].perf = 1
    /\ att[Main].res = "CURLE_OK"
    /\ att[Main].code = 500

\* a worker thread is running
WorkerLive(w) == pc[w] \notin {"not_started", "w_done"}

\* C15: while a worker is running, every write of the shared statistics,
\* the coordinator's write of g_files_total included, is made by the holder
\* of g_stats_mutex.
C15_StatsWritesLocked ==
    [][ ( /\ \E w \in Workers : WorkerLive(w)
          /\ \/ g_files_total' # g_files_total
             \/ g_files_uploaded' # g_files_uploaded
             \/ g_files_failed' # g_files_failed )
        => /\ g_stats_mutex \in Threads
           /\ pc'[g_stats_mutex] # pc[g_stats_mutex] ]_vars

\* C16: inside upload_dir_parallel some thread can always take a step.
C16_NoDeadlock ==
    (target = "dir" /\ pc[Main] # "m_exit") => ENABLED Next

\* C17: no thread holds queue->mutex and g_stats_mutex together, and no
\* thread waits on a semaphore while it holds either of them.
C17_NoNesting ==
    \A t \in Threads :
        /\ ~(qmutex = t /\ g_stats_mutex = t)
        /\ pc[t] \in {"enq_wait", "deq_wait"} =>
              (qmutex # t /\ g_stats_mutex # t)

\* C17 witness: the two mutexes are held by two threads at once while the
\* queue holds a job
C17_BothHeld ==
    /\ qmutex = Main
    /\ g_stats_mutex \in Workers
    /\ queue # << >>

\* the coordinator is in the walker, a call of enqueue_upload included
InWalker ==
    pc[Main] \in {"walk_open", "walk", "enq_wait", "enq_lock", "enq_cs",
                  "enq_undo", "enq_post", "enq_ret", "udp_total"}

\* C18: the walker runs after all g_concurrent_uploads workers were started
\* and before shutdown_queue; no call of enqueue_upload is made or rejected
\* after shutdown; the queue is destroyed only when no worker is running.
C18_CoordinatorOrder ==
    /\ pc[Main] = "udp_spawn" => (appended = << >> /\ shutdown = 0 /\ ~sdCalled)
    /\ InWalker =>
          /\ shutdown = 0 /\ ~sdCalled
          /\ spawn_i = g_concurrent_uploads
          /\ \A w \in 1..g_concurrent_uploads : pc[w] # "not_started"
    /\ \A t \in Threads : ~qcall[t].late /\ ~qcall[t].obs
    /\ pc[Main] \in {"udp_join", "destroy_lock", "destroy_cs"} => shutdown = 1
    /\ pc[Main] \in {"destroy_lock", "destroy_cs", "dir_ret"} =>
          \A w \in Workers : ~WorkerLive(w)

\* C18 witness: a worker is uploading a job while the walker is enqueuing
\* the next one
C18_UploadWhileWalking ==
    /\ pc[Main] = "enq_lock"
    /\ \E w \in Workers : pc[w] = "ufo_ok_cs"

\* the word w occurs somewhere in the name n
Contains(n, w) ==
    \E i \in 1..Len(n) :
        i + Len(w) - 1 <= Len(n) /\ SubSeq(n, i, i + Len(w) - 1) = w

\* the names that are not to be uploaded: hidden, .tmp, .swp, ~
NameFiltered(n) ==
    \/ (Len(n) >= 1 /\ n[1] = ".")
    \/ Contains(n, << ".", "t", "m", "p" >>)
    \/ Contains(n, << ".", "s", "w", "p" >>)
    \/ Contains(n, << "~" >>)

\* C14: should_upload_file rejects a name exactly when it starts with '.'
\* or contains ".tmp", ".swp" or "~" anywhere, accepts every other name, and
\* gives the same result each time the name is classified.
C14_Classifier ==
    /\ \A k \in 1..Len(verdicts) :
          verdicts[k] =
             IF NameFiltered(fname) THEN 0 ELSE 1
    /\ \A k \in 1..Len(verdicts) : verdicts[k] = verdicts[1]

\* C14 witness: a name with '~' inside it, not at either end, was rejected
\* twice
C14_TildeInside ==
    /\ Len(verdicts) = 2
    /\ Len(fname) = 3
    /\ fname[1] = "a" /\ fname[2] = "~" /\ fname[3] = "a"
    /\ verdicts = << 0, 0 >>

\* the tree as the claims see it: its entries, the directory holding an
\* entry, the entry leading to a directory, the path of a directory
\* relative to the root, and whether the walk got into a directory
TreeDirs == 1..3
EntrySet(tr) ==
    UNION {{Entries(tr, d)[k] : k \in 1..Len(Entries(tr, d))} : d \in TreeDirs}
DirOf(tr, e) ==
    CHOOSE d \in TreeDirs : \E k \in 1..Len(Entries(tr, d)) : Entries(tr, d)[k] = e
UpEntry(tr, d) == CHOOSE x \in EntrySet(tr) : x.kind = "dir" /\ x.sub = d
RECURSIVE RelDir(_, _)
RelDir(tr, d) ==
    IF d = RootDir THEN << >>
    ELSE Append(RelDir(tr, DirOf(tr, UpEntry(tr, d))), UpEntry(tr, d).name)
RECURSIVE DirReached(_, _)
DirReached(tr, d) ==
    IF d = RootDir THEN RootEntry \notin skipped
    ELSE /\ UpEntry(tr, d).id \notin skipped
         /\ DirReached(tr, DirOf(tr, UpEntry(tr, d)))

\* an eligible regular file the walk can reach and use
Expected(tr, e) ==
    /\ e.kind = "reg"
    /\ ~NameFiltered(e.name)
    /\ e.id \notin skipped
    /\ DirReached(tr, DirOf(tr, e))

\* the coordinator is between the walker's return and the end of
\* upload_dir_parallel
AfterWalk ==
    /\ ~udp_failed
    /\ pc[Main] \in {"sd_lock", "sd_cs", "sd_post", "sd_ret", "udp_join",
                    "destroy_lock", "destroy_cs"}

\* C12: the walker calls enqueue_upload exactly once for every eligible
\* regular file it can reach and never for another entry; what it returns,
\* which becomes g_files_total, is the number of jobs enqueued; in the clean
\* environment tree "A" ends with 2 uploaded and 0 failed.
C12_WalkerEnqueues ==
    /\ \A j \in Range(appended) :
          \E e \in EntrySet(tree) :
             e.id = j /\ e.kind = "reg" /\ ~NameFiltered(e.name)
    /\ \A e \in EntrySet(tree) :
          /\ enqCalls[e.id] <= 1
          /\ Occurrences(appended, e.id) <= enqCalls[e.id]
    /\ pc[Main] = "udp_total" =>
          /\ \A e \in EntrySet(tree) :
                enqCalls[e.id] = IF Expected(tree, e) THEN 1 ELSE 0
          /\ env = "clean" =>
                \A e \in EntrySet(tree) :
                   Expected(tree, e) => Occurrences(appended, e.id) = 1
          /\ total_files = Len(appended)
    /\ AfterWalk => (files_queued = Len(appended) /\ g_files_total = Len(appended))
    /\ (pc[Main] = "dir_ret" /\ env = "clean" /\ tree = "A") =>
          /\ Range(appended) = {1, 5}
          /\ g_files_uploaded = 2
          /\ g_files_failed = 0

\* C12 witness: tree "A" has been uploaded by MAX_CONCURRENT_UPLOADS workers
C12_TreeADone ==
    /\ pc[Main] = "dir_ret"
    /\ env = "clean"
    /\ tree = "A"
    /\ g_concurrent_uploads = MAX_CONCURRENT_UPLOADS
    /\ g_files_uploaded = 2

\* C19 as stated: a file two or more directories below the root is enqueued
\* with a subdir that is not its directory's path relative to the root.
C19_SubdirFlattened ==
    \A e \in EntrySet(tree) :
        (e.id \in Range(appended) /\ Len(RelDir(tree, DirOf(tree, e))) >= 2) =>
            job_subdir[e.id] # RelDir(tree, DirOf(tree, e))

\* C19, amended: every file is enqueued with the path of its directory
\* relative to the root as its subdir.
C19_SubdirIsRelDir ==
    \A e \in EntrySet(tree) :
        enqCalls[e.id] > 0 => job_subdir[e.id] = RelDir(tree, DirOf(tree, e))

\* C19 witness: d1/d2/f has been enqueued
C19_NestedEnqueued ==
    \E e \in EntrySet(tree) :
        /\ e.id \in Range(appended)
        /\ RelDir(tree, DirOf(tree, e)) = << << "d", "1" >>, << "d", "2" >> >>

\* C20, at the walker's return: an entry skipped after an enumeration error
\* is not enqueued and not counted, and every other eligible file the walk
\* can reach had its call of enqueue_upload
C20_AtReturn ==
    pc[Main] = "udp_total" =>
        /\ \A e \in EntrySet(tree) :
              e.id \in skipped =>
                 (enqCalls[e.id] = 0 /\ e.id \notin Range(appended))
        /\ \A e \in EntrySet(tree) :
              Expected(tree, e) => enqCalls[e.id] = 1
        /\ total_files =
              Cardinality({e \in EntrySet(tree) : e.id \in Range(appended)})

\* C20, on every skip: the counters of uploads are left alone and the walk
\* goes on (the coordinator stays in the loop unless the root itself could
\* not be opened)
C20_OnSkip ==
    skipped' # skipped =>
        /\ g_files_failed' = g_files_failed
        /\ g_files_uploaded' = g_files_uploaded
        /\ pc'[Main] = (IF RootEntry \in skipped' THEN "udp_total" ELSE "cf_loop")
        /\ Len(stack') = Len(stack)

\* C20: an enumeration error skips only the directory or entry it concerns.
C20_SkipOnlyEntry == [] C20_AtReturn /\ [][C20_OnSkip]_vars

\* C20 witness: d1 was skipped and the later entry e was enqueued and
\* counted
C20_SkippedThenQueued ==
    /\ pc[Main] = "udp_total"
    /\ tree = "B"
    /\ 1 \in skipped
    /\ Range(appended) = {3}
    /\ total_files = 1

\* C21: when a worker of a directory run is about to count a success and
\* compute the progress line, g_files_total is already the walker's count:
\* it is positive and not below the number of attempts counted, this one
\* included.
C21_ProgressTotalFinal ==
    \A w \in Workers :
        (target = "dir" /\ pc[w] = "ufo_ok_cs") =>
            /\ g_files_total > 0
            /\ g_files_uploaded + 1 + g_files_failed <= g_files_total

\* C22: a directory run that ends with status 0 has uploaded every file the
\* walker enqueued.
C22_SuccessMeansAllUploaded ==
    (target = "dir" /\ pc[Main] = "m_exit" /\ exitcode = 0) =>
        g_files_uploaded = files_queued

====
